---- MODULE Spec2Model ----
(***************************************************************************)
(* Model of the workflow-application-token action: the main phase          *)
(* (src/actions/main.ts), the post phase (src/actions/post.ts) and the     *)
(* GitHubApplication class (src/github-application.ts).                    *)
(*                                                                         *)
(* JavaScript strings that the code inspects character by character        *)
(* (regular expressions, split, trim, includes) are sequences of           *)
(* one-character strings.  An optional value (undefined or a value) is a   *)
(* sequence of length 0 or 1.                                              *)
(***************************************************************************)
EXTENDS Integers, Sequences, FiniteSets, TLC

(***************************************************************************)
(* Bounds                                                                  *)
(***************************************************************************)
\* longest permissions input enumerated by the parsePermissions specification
MaxPermLen == 4

(***************************************************************************)
(* Optional values and JavaScript string primitives                        *)
(***************************************************************************)
None == <<>>
Some(x) == <<x>>

\* JavaScript truthiness of a string: the empty string is falsy
Truthy(s) == s # <<>>

Min(a, b) == IF a < b THEN a ELSE b

IsSpace(c) == c = " "

\* String.prototype.trim
RECURSIVE Trim(_)
Trim(s) ==
  IF s = <<>> THEN s
  ELSE IF IsSpace(s[1]) THEN Trim(Tail(s))
  ELSE IF IsSpace(s[Len(s)]) THEN Trim(SubSeq(s, 1, Len(s) - 1))
  ELSE s

\* String.prototype.includes for a one-character needle
Includes(s, c) == \E i \in 1..Len(s) : s[i] = c

\* String.prototype.split(sep) for a one-character separator
RECURSIVE Split(_, _)
Split(s, sep) ==
  IF Includes(s, sep)
  THEN LET i == CHOOSE k \in 1..Len(s) :
                  s[k] = sep /\ \A j \in 1..(k - 1) : s[j] # sep
       IN <<SubSeq(s, 1, i - 1)>> \o Split(SubSeq(s, i + 1, Len(s)), sep)
  ELSE <<s>>

\* String.prototype.split(sep, limit): the full split cut to limit pieces
SplitLimit(s, sep, limit) ==
  LET parts == Split(s, sep) IN SubSeq(parts, 1, Min(limit, Len(parts)))

StartsWith(s, prefix) ==
  Len(s) >= Len(prefix) /\ SubSeq(s, 1, Len(prefix)) = prefix

\* joins the pieces with the separator (template `${owner}/${repo}`)
Join2(a, sep, b) == a \o <<sep>> \o b

Digits == {"0", "1", "2", "3", "4", "5", "6", "7", "8", "9"}

\* /^[0-9]+$/.test(applicationId)
IsNumericString(s) == Len(s) >= 1 /\ \A i \in 1..Len(s) : s[i] \in Digits

\* /^https?:\/\//.test(proxy)
MatchesHttpScheme(s) ==
  \/ StartsWith(s, <<"h", "t", "t", "p", ":", "/", "/">>)
  \/ StartsWith(s, <<"h", "t", "t", "p", "s", ":", "/", "/">>)

(***************************************************************************)
(* main.ts helpers                                                         *)
(***************************************************************************)
\* an Error with a message: the template of the message and its arguments
Msg(tmpl, args) == [tmpl |-> tmpl, args |-> args]

\* new Error(message): a plain Error has no status property
JsError(m) == [status |-> None, message |-> m]

\* Octokit's RequestError: an Error carrying the HTTP status
RequestError(status, m) == [status |-> Some(status), message |-> m]

\* result of a call that returns
Ok(v) == [threw |-> FALSE, value |-> v]
\* result of a call that throws the error object e
Thrown(e) == [threw |-> TRUE, error |-> e]

\* validateProxy without its test
validateProxyUnchecked(proxy) == Ok(proxy)

\* validateProxy: throws for a non-empty value without http(s) scheme
validateProxy(proxy) ==
  IF Truthy(proxy) /\ ~MatchesHttpScheme(proxy)
  THEN Thrown(JsError(Msg("Invalid proxy URL format. It must start with http:// or https://", <<>>)))
  ELSE Ok(proxy)

\* core.getInput(key, {required: true}).trim(): getInput throws when the
\* raw value is empty, and trims what it returns
getRequiredInputValue(key, raw) ==
  IF ~Truthy(raw)
  THEN Thrown(JsError(Msg("Input required and not supplied: ${name}", <<key>>)))
  ELSE Ok(Trim(Trim(raw)))

\* core.getBooleanInput: only the YAML 1.2 core schema spellings are accepted
getBooleanInput(key, raw) ==
  IF raw \in {"true", "True", "TRUE"} THEN Ok(TRUE)
  ELSE IF raw \in {"false", "False", "FALSE"} THEN Ok(FALSE)
  ELSE Thrown(JsError(Msg("Input does not meet YAML 1.2 Core Schema specification: ${name}", <<key>>)))

EmptyObject == [k \in {} |-> <<>>]

\* permissions[name] = level
Put(obj, k, v) == [x \in (DOMAIN obj) \cup {k} |-> IF x = k THEN v ELSE obj[x]]

DefaultPermissions ==
  [k \in {<<"c", "o", "n", "t", "e", "n", "t", "s">>} |-> <<"r", "e", "a", "d">>]

\* the body of the for loop of parsePermissions, over the remaining pieces
RECURSIVE parsePermissionsLoop(_, _)
parsePermissionsLoop(parts, permissions) ==
  IF parts = <<>> THEN permissions
  ELSE LET kv == SplitLimit(Head(parts), ":", 2)
           pName == kv[1]
           pLevel == IF Len(kv) >= 2 THEN Some(kv[2]) ELSE None
       IN parsePermissionsLoop(
            Tail(parts),
            IF Truthy(pName) /\ pLevel # None /\ Truthy(pLevel[1])
            THEN Put(permissions, Trim(pName), Trim(pLevel[1]))
            ELSE permissions)

\* parsePermissions without the default
parsePermissionsNoDefault(permissionInput) ==
  IF Truthy(permissionInput)
  THEN parsePermissionsLoop(Split(permissionInput, ","), EmptyObject)
  ELSE EmptyObject

parsePermissions(permissionInput) ==
  LET permissions == IF Truthy(permissionInput)
                     THEN parsePermissionsLoop(Split(permissionInput, ","), EmptyObject)
                     ELSE EmptyObject
  IN IF Cardinality(DOMAIN permissions) > 0 THEN permissions ELSE DefaultPermissions

(***************************************************************************)
(* The upstream API and the Octokit client                                 *)
(***************************************************************************)
\* HTTP statuses the upstream API answers with in the model
Statuses == {200, 201, 204, 404}

InstallationIds == {0, 42}

Tokens == {"ghs_abc", "ghs_xyz"}

AppMetadata == [name |-> "my-app", id |-> 123456, client_id |-> "Iv1.abc"]

NoData == [message |-> "no content"]

ROUTE_APP == "GET /app"
ROUTE_REPO_INSTALLATION == "GET /repos/{owner}/{repo}/installation"
ROUTE_ORG_INSTALLATION == "GET /orgs/{org}/installation"
ROUTE_ACCESS_TOKENS == "POST /app/installations/{installation_id}/access_tokens"
ROUTE_REVOKE == "DELETE /installation/token"

ApiVersionHeader == [name |-> "X-GitHub-Api-Version", value |-> "2022-11-28"]

\* the response bodies the API can send for a route
DataFor(route) ==
  IF route = ROUTE_APP THEN {AppMetadata}
  ELSE IF route \in {ROUTE_REPO_INSTALLATION, ROUTE_ORG_INSTALLATION}
       THEN {[id |-> i] : i \in InstallationIds}
  ELSE IF route = ROUTE_ACCESS_TOKENS THEN {[token |-> t] : t \in Tokens}
  ELSE {NoData}

\* what can happen to a request on the wire: an HTTP response, a network
\* failure, or the request timeout aborting it
Upstream(route) ==
  {[kind |-> "response", status |-> s, data |-> d] : s \in Statuses, d \in DataFor(route)}
    \cup {[kind |-> k, status |-> 0, data |-> NoData] : k \in {"network", "abort"}}

\* Octokit's request: resolves with the response for a status below 400
\* (304 excepted), and rejects with a RequestError carrying the status
\* otherwise; a network failure is a RequestError with status 500 and an
\* aborted request is rethrown as it is, without a status
OctokitRequest(up) ==
  IF up.kind = "response"
  THEN IF up.status >= 400 \/ up.status = 304
       THEN Thrown(RequestError(up.status, Msg("${upstream message}", <<>>)))
       ELSE Ok([status |-> up.status, data |-> up.data])
  ELSE IF up.kind = "network"
       THEN Thrown(RequestError(500, Msg("${network error}", <<>>)))
       ELSE Thrown(JsError(Msg("The operation was aborted", <<>>)))

\* getApiBaseUrl: url || process.env['GITHUB_API_URL'] || 'https://api.github.com'
getApiBaseUrl(url, envUrl) ==
  IF url # None /\ url[1] # "" THEN url[1]
  ELSE IF envUrl # None /\ envUrl[1] # "" THEN envUrl[1]
  ELSE "https://api.github.com"

JsUndefined == [kind |-> "undefined"]
JsNull == [kind |-> "null"]

\* getOctokit(token, baseApiUrl): the client authenticated with the token
getOctokit(token, baseApiUrl, envUrl) ==
  [kind |-> "octokit", auth |-> token, baseUrl |-> getApiBaseUrl(baseApiUrl, envUrl),
   timeout |-> 5000]

\* a request as it leaves the client
Request(client, route, params, headers, body) ==
  [route |-> route, params |-> params, auth |-> client.auth,
   baseUrl |-> client.baseUrl, headers |-> headers, body |-> body]

(***************************************************************************)
(* github-application.ts                                                   *)
(***************************************************************************)
\* private keys that jwt.sign accepts as an RS256 key
PemKeys == {<<"K">>}

\* _validateVariableValue: value is the optional argument
validateVariableValue(variableName, value) ==
  IF value = None \/ ~Truthy(value[1])
  THEN Thrown(JsError(Msg("A valid ${variableName} must be provided, was ${value}", <<variableName>>)))
  ELSE IF Len(Trim(value[1])) = 0
       THEN Thrown(JsError(Msg("${variableName} must be provided contained no valid characters other than whitespace", <<variableName>>)))
       ELSE Ok(Trim(value[1]))

\* new PrivateKey(value): keeps the validated key string
PrivateKey(value) ==
  IF Trim(value) = <<>>
  THEN Thrown(JsError(Msg("Private key is blank", <<>>)))
  ELSE Ok([key |-> Trim(value)])

\* the constructor: the _config of the new object, or the error it throws
GitHubApplicationNew(privateKey, applicationId) ==
  LET k == validateVariableValue("privateKey", privateKey) IN
  IF k.threw THEN k
  ELSE LET pk == PrivateKey(k.value) IN
       IF pk.threw THEN pk
       ELSE LET id == validateVariableValue("applicationId", applicationId) IN
            IF id.threw THEN id
            ELSE Ok([privateKey |-> pk.value, id |-> id.value])

\* jwt.sign(payload, key, {algorithm: 'RS256'})
jwtSign(payload, key) ==
  IF key \in PemKeys
  THEN Ok([kind |-> "jwt", algorithm |-> "RS256", payload |-> payload])
  ELSE Thrown(JsError(Msg("secretOrPrivateKey must be an asymmetric key when using RS256", <<>>)))

DEFAULT_VALID_SECONDS == 60

\* the payload with the validity as its expiry, the clock left out
connectPayloadNoClock(config, validSeconds, secondsNow) ==
  LET expireInSeconds == IF validSeconds = None THEN DEFAULT_VALID_SECONDS ELSE validSeconds[1]
  IN [iat |-> secondsNow, exp |-> expireInSeconds, iss |-> config.id]

\* connect, up to the await: the payload, the signature and the new client
connectPayload(config, validSeconds, secondsNow) ==
  LET expireInSeconds == IF validSeconds = None THEN DEFAULT_VALID_SECONDS ELSE validSeconds[1]
  IN [iat |-> secondsNow, exp |-> secondsNow + expireInSeconds, iss |-> config.id]

\* the client getter
clientGetter(client) ==
  IF client = JsNull
  THEN Thrown(JsError(Msg("Application has not been initialized correctly, call connect() to connect to GitHub first.", <<>>)))
  ELSE Ok(client)

\* this.client.request(...) / this.client.rest...: reading a property of an
\* undefined client is a TypeError, thrown before anything is sent
clientUse(client) ==
  LET c == clientGetter(client) IN
  IF c.threw THEN c
  ELSE IF c.value.kind # "octokit"
       THEN Thrown(JsError(Msg("Cannot read properties of ${client}", <<>>)))
       ELSE c

CONNECT_FAILURE == "Failure connecting as the application; status code: ${err.status}\n${err.message}"

\* connect, after the await: r is what the request resolved or rejected with
connectComplete(config, r) ==
  LET caught(err) == Thrown(JsError(Msg(CONNECT_FAILURE, <<err.status, err.message>>)))
  IN IF r.threw THEN caught(r.error)
     ELSE IF r.value.status = 200 THEN Ok(r.value.data)
     ELSE caught(JsError(Msg("Failed to load application with id:${this.id}; ${resp.data}", <<config.id>>)))

REPO_LOOKUP_FAILURE == "Failed to resolve installation of application on repository ${owner}/${repo}; ${err.message}"
ORG_LOOKUP_FAILURE == "Failed to resolve installation of application on organization ${org}; ${err.message}"
TOKEN_FAILURE == "Failed to get access token for application installation; ${err.message}"
UNEXPECTED_STATUS == "Unexpected status code ${resp.status}; ${resp.data}"

\* the common shape of the three methods after the await: the expected
\* status returns the data, anything else is caught and rethrown
completeWith(expected, r, failure) ==
  LET caught(err) == Thrown(JsError(Msg(failure.tmpl, failure.args \o <<err.message>>)))
  IN IF r.threw THEN caught(r.error)
     ELSE IF r.value.status = expected THEN Ok(r.value.data)
     ELSE caught(JsError(Msg(UNEXPECTED_STATUS, <<r.value.status>>)))

getRepositoryInstallationComplete(owner, repo, r) ==
  completeWith(200, r, Msg(REPO_LOOKUP_FAILURE, <<Join2(owner, "/", repo)>>))

getOrganizationInstallationComplete(org, r) ==
  completeWith(200, r, Msg(ORG_LOOKUP_FAILURE, <<org>>))

getInstallationAccessTokenComplete(r) ==
  completeWith(201, r, Msg(TOKEN_FAILURE, <<>>))

\* the payload of getInstallationAccessToken
accessTokenPayload(permissions) ==
  IF permissions # None /\ Cardinality(DOMAIN permissions[1]) > 0
  THEN [permissions |-> Some(permissions[1]), headers |-> {ApiVersionHeader}]
  ELSE [permissions |-> Some(EmptyObject), headers |-> {ApiVersionHeader}]

MISSING_INSTALLATION_ID == "GitHub Application installation id must be provided"

\* getInstallationAccessToken without the test of the installation id
getInstallationAccessTokenStartUnchecked(client, installationId, permissions) ==
  LET payload == accessTokenPayload(permissions)
      c == clientUse(client)
  IN IF c.threw
     THEN Thrown(JsError(Msg(TOKEN_FAILURE, <<c.error.message>>)))
     ELSE Ok(Request(c.value, ROUTE_ACCESS_TOKENS, <<installationId>>,
                     payload.headers, [permissions |-> payload.permissions]))

\* getInstallationAccessToken up to the await: the error thrown before the
\* try block or inside it, or the request to send
getInstallationAccessTokenStart(client, installationId, permissions) ==
  IF installationId = 0
  THEN Thrown(JsError(Msg(MISSING_INSTALLATION_ID, <<>>)))
  ELSE LET payload == accessTokenPayload(permissions)
           c == clientUse(client)
       IN IF c.threw
          THEN Thrown(JsError(Msg(TOKEN_FAILURE, <<c.error.message>>)))
          ELSE Ok(Request(c.value, ROUTE_ACCESS_TOKENS, <<installationId>>,
                          payload.headers, [permissions |-> payload.permissions]))

\* getRepositoryInstallation up to the await
getRepositoryInstallationStart(client, owner, repo) ==
  LET c == clientUse(client) IN
  IF c.threw
  THEN Thrown(JsError(Msg(REPO_LOOKUP_FAILURE, <<Join2(owner, "/", repo), c.error.message>>)))
  ELSE Ok(Request(c.value, ROUTE_REPO_INSTALLATION, <<owner, repo>>, {ApiVersionHeader}, None))

\* getOrganizationInstallation up to the await
getOrganizationInstallationStart(client, org) ==
  LET c == clientUse(client) IN
  IF c.threw
  THEN Thrown(JsError(Msg(ORG_LOOKUP_FAILURE, <<org, c.error.message>>)))
  ELSE Ok(Request(c.value, ROUTE_ORG_INSTALLATION, <<org>>, {ApiVersionHeader}, None))

\* connect up to the await: jwt.sign throws outside the try block; the
\* client is assigned before the request is sent
connectStart(config, validSeconds, secondsNow, envUrl) ==
  LET token == jwtSign(connectPayload(config, validSeconds, secondsNow), config.privateKey.key)
  IN IF token.threw THEN token
     ELSE Ok(getOctokit(token.value, None, envUrl))

\* createApplication up to the await inside connect: the _config of the new
\* object once constructed, and the client of connect or the error thrown.
\* Only privateKey, applicationId and timeout of the config are read, and
\* the timeout is what connect receives as its validSeconds
createApplicationStart(config, secondsNow, envUrl) ==
  LET c == GitHubApplicationNew(config.privateKey, config.applicationId) IN
  IF c.threw THEN [config |-> None, r |-> c]
  ELSE [config |-> Some(c.value),
        r |-> connectStart(c.value, config.timeout, secondsNow, envUrl)]

REVOKE_FAILURE == "Failed to revoke application token; ${err.message}"

\* revokeAccessToken(token) up to the await: only the token parameter is
\* declared, further arguments of the callers are dropped
revokeAccessTokenStart(token, envUrl) ==
  Request(getOctokit([kind |-> "token", token |-> token], None, envUrl),
          ROUTE_REVOKE, <<>>, {}, None)

\* revokeAccessToken returning false for an unexpected status
revokeAccessTokenCompleteLenient(r) ==
  IF r.threw THEN Thrown(JsError(Msg(REVOKE_FAILURE, <<r.error.message>>)))
  ELSE Ok(r.value.status = 204)

\* revokeAccessToken after the await
revokeAccessTokenComplete(r) ==
  LET caught(err) == Thrown(JsError(Msg(REVOKE_FAILURE, <<err.message>>)))
  IN IF r.threw THEN caught(r.error)
     ELSE IF r.value.status = 204 THEN Ok(TRUE)
     ELSE caught(JsError(Msg(UNEXPECTED_STATUS, <<r.value.status>>)))

(***************************************************************************)
(* State                                                                   *)
(***************************************************************************)
VARIABLES
  inputs,       \* the inputs of the step and the environment of the run
  pc,           \* where the running script is
  appConfig,    \* GitHubApplication._config, None before construction
  appClient,    \* GitHubApplication._client
  appMetadata,  \* GitHubApplication._metadata
  net,          \* the request awaiting its response
  output,       \* the output `token` of the step
  state,        \* the saved state `token`, handed from main to post
  log,          \* core.setSecret/setOutput/saveState/setFailed calls and requests sent, in order
  ret,          \* how the last call of interest ended
  postScript,   \* the post script that runs
  calls         \* calls made on the object by a direct caller

vars == <<inputs, pc, appConfig, appClient, appMetadata, net, output, state, log,
          ret, postScript, calls>>

\* values of the inputs and of the environment
PrivateKeys == {<<>>, <<" ">>, <<"K">>, <<"X">>}
ApplicationIds == {<<>>, <<"1", "2">>, <<"1", "a">>}
BaseUrls == {"", "https://ghe.example/api/v3"}
EnvUrls == {None, Some("https://env.example/api")}
Proxies == {<<>>,
            <<"h", "t", "t", "p", ":", "/", "/", "p">>,
            <<"h", "t", "t", "p", "s", ":", "/", "/", "p">>,
            <<"f", "t", "p", ":", "/", "/", "p">>,
            <<"h", "t", "t", "p", ":", "/", "p">>}
BooleanInputs == {"true", "false", ""}
Organizations == {<<>>, <<" ">>, <<"a", "c", "m", "e">>}
PermissionInputs == {<<>>, <<"a", ":", "w">>, <<"a">>}
Repositories == {None, Some(<<>>), Some(<<"o", "r">>), Some(<<"o", "/", "r">>)}
Clock == {1700000000, 1700000030}
PostScripts == {"post.ts", "part_000", "part_001"}

Inputs ==
  [application_private_key : PrivateKeys,
   application_id : ApplicationIds,
   github_api_base_url : BaseUrls,
   https_proxy : Proxies,
   ignore_environment_proxy : BooleanInputs,
   organization : Organizations,
   permissions : PermissionInputs,
   revoke_token : BooleanInputs,
   GITHUB_REPOSITORY : Repositories,
   GITHUB_API_URL : EnvUrls]

\* core.getInput(name): the trimmed value
getInput(raw) == Trim(raw)

\* the entries of the log
Event(phase, op, val) == [phase |-> phase, op |-> op, val |-> val]
Secret(name, value) == [name |-> name, value |-> value]

\* the values of ret: a call with its arguments, the fate of its request if
\* it sent one, and its result once it has returned or thrown
Returned(call, args, up, r) == Some([call |-> call, args |-> args, up |-> up, result |-> Some(r)])
Pending(call, args) == Some([call |-> call, args |-> args, up |-> None, result |-> None])

\* core.info(message)
Info(phase, tmpl, args) == Event(phase, "info", Msg(tmpl, args))

\* fail(err, message): the message handed to core.setFailed
failMessage(err, message) ==
  IF message # None THEN message[1]
  ELSE IF err # None THEN err[1].message
  ELSE Msg("An unknown error occurred", <<>>)

Failures(phase) == SelectSeq(log, LAMBDA e : e.phase = phase /\ e.op = "setFailed")
Requests(phase) == SelectSeq(log, LAMBDA e : e.phase = phase /\ e.op = "request")
AllRequests == SelectSeq(log, LAMBDA e : e.op = "request")

Init ==
  /\ inputs \in Inputs
  /\ pc = "main_start"
  /\ appConfig = None
  /\ appClient = JsUndefined
  /\ appMetadata = None
  /\ net = None
  /\ output = None
  /\ state = None
  /\ log = <<>>
  /\ ret = None
  /\ postScript = None
  /\ calls = 0

(***************************************************************************)
(* main.ts                                                                 *)
(***************************************************************************)
INIT_FAILURE == "Failed to initialize GitHub Application connection using provided ID and private key"

\* run, lines 8-26, up to the await inside connect: whether the private key
\* was registered as a secret, the _config of the object once constructed,
\* and the client, or the error thrown
mainInit(in, secondsNow) ==
  LET privateKey == getRequiredInputValue("application_private_key", in.application_private_key)
      applicationId == getRequiredInputValue("application_id", in.application_id)
      ignoreProxy == getBooleanInput("ignore_environment_proxy", in.ignore_environment_proxy)
      proxy == validateProxy(getInput(in.https_proxy))
      app == createApplicationStart(
               [privateKey |-> Some(privateKey.value),
                applicationId |-> Some(applicationId.value),
                baseApiUrl |-> Some(in.github_api_base_url),
                timeout |-> None],
               secondsNow, in.GITHUB_API_URL)
      out(masked, cfg, r) == [masked |-> masked, config |-> cfg, r |-> r]
  IN IF privateKey.threw THEN out(FALSE, None, privateKey)
     ELSE IF applicationId.threw THEN out(FALSE, None, applicationId)
     ELSE IF ignoreProxy.threw THEN out(FALSE, None, ignoreProxy)
     ELSE IF ~IsNumericString(applicationId.value)
          THEN out(TRUE, None, Thrown(JsError(Msg("Invalid application ID format. It must be a numeric string.", <<>>))))
     ELSE IF proxy.threw THEN out(TRUE, None, proxy)
     ELSE out(TRUE, app.config, app.r)

MainStart ==
  /\ pc = "main_start"
  /\ \E secondsNow \in Clock :
       LET m == mainInit(inputs, secondsNow)
           masked == IF m.masked
                     THEN <<Event("main", "setSecret",
                                  Secret("privateKey", Trim(inputs.application_private_key)))>>
                     ELSE <<>>
       IN /\ appConfig' = m.config
          /\ IF m.r.threw
             THEN /\ log' = log \o masked \o
                        <<Event("main", "setFailed",
                                failMessage(Some(m.r.error), Some(Msg(INIT_FAILURE, <<>>))))>>
                  /\ pc' = "main_done"
                  /\ UNCHANGED <<appClient, net>>
             ELSE LET req == Request(m.r.value, ROUTE_APP, <<>>, {ApiVersionHeader}, None)
                  IN /\ appClient' = m.r.value
                     /\ net' = Some(req)
                     /\ log' = log \o masked \o <<Event("main", "request", req)>>
                     /\ pc' = "await_connect"
  /\ UNCHANGED <<inputs, appMetadata, output, state, ret, postScript, calls>>

INVALID_REPOSITORY == "Invalid GITHUB_REPOSITORY format. Expected 'owner/repo'."
NOT_INSTALLED_ORG == "GitHub Application is not installed on the specified organization: ${userSpecifiedOrganization}"
NOT_INSTALLED_REPO == "GitHub Application is not installed on repository: ${repository}"
NO_INSTALLATION == "No installation of the specified GitHub application was retrieved."

\* run, lines 36-54, testing only that GITHUB_REPOSITORY is set
mainLookupUnchecked(in, client) ==
  LET userSpecifiedOrganization == getInput(in.organization)
      repository == in.GITHUB_REPOSITORY
  IN IF repository = None \/ ~Truthy(repository[1])
     THEN Thrown(JsError(Msg(INVALID_REPOSITORY, <<>>)))
     ELSE LET parts == Split(repository[1], "/")
              owner == parts[1]
              repo == IF Len(parts) >= 2 THEN parts[2] ELSE <<>>
          IN IF Truthy(userSpecifiedOrganization)
             THEN getOrganizationInstallationStart(client, userSpecifiedOrganization)
             ELSE getRepositoryInstallationStart(client, owner, repo)

\* lines 36-54 with the two lookups exchanged
mainLookupInverted(in, client) ==
  LET userSpecifiedOrganization == getInput(in.organization)
      repository == in.GITHUB_REPOSITORY
  IN IF repository = None \/ ~Truthy(repository[1]) \/ ~Includes(repository[1], "/")
     THEN Thrown(JsError(Msg(INVALID_REPOSITORY, <<>>)))
     ELSE LET parts == Split(repository[1], "/")
              owner == parts[1]
              repo == parts[2]
          IN IF Truthy(userSpecifiedOrganization)
             THEN getRepositoryInstallationStart(client, owner, repo)
             ELSE getOrganizationInstallationStart(client, userSpecifiedOrganization)

\* run, lines 36-54 up to the await: the installation lookup to send, or
\* the error thrown
mainLookup(in, client) ==
  LET userSpecifiedOrganization == getInput(in.organization)
      repository == in.GITHUB_REPOSITORY
  IN IF repository = None \/ ~Truthy(repository[1]) \/ ~Includes(repository[1], "/")
     THEN Thrown(JsError(Msg(INVALID_REPOSITORY, <<>>)))
     ELSE LET parts == Split(repository[1], "/")
              owner == parts[1]
              repo == parts[2]
          IN IF Truthy(userSpecifiedOrganization)
             THEN getOrganizationInstallationStart(client, userSpecifiedOrganization)
             ELSE getRepositoryInstallationStart(client, owner, repo)

\* lines 47 and 51: the message logged before the lookup
obtainingMessage(in) ==
  IF Truthy(getInput(in.organization))
  THEN Info("main", "Obtaining application installation for organization: ${userSpecifiedOrganization}",
            <<getInput(in.organization)>>)
  ELSE Info("main", "Obtaining application installation for repository: ${repository}",
            <<in.GITHUB_REPOSITORY[1]>>)

MainConnectResponse ==
  /\ pc = "await_connect"
  /\ \E up \in Upstream(net[1].route) :
       LET r == connectComplete(appConfig[1], OctokitRequest(up)) IN
       /\ ret' = Returned("connect", <<>>, Some(up), r)
       /\ IF r.threw
          THEN /\ log' = Append(log, Event("main", "setFailed",
                                  failMessage(Some(r.error), Some(Msg(INIT_FAILURE, <<>>)))))
               /\ pc' = "main_done"
               /\ net' = None
               /\ UNCHANGED appMetadata
          ELSE LET lookup == mainLookup(inputs, appClient)
                   found == Info("main", "Found GitHub Application: ${app.name}", <<r.value.name>>)
               IN
               /\ appMetadata' = Some(r.value)
               /\ IF lookup.threw
                  THEN /\ log' = log \o <<found, Event("main", "setFailed",
                                                       failMessage(Some(lookup.error), None))>>
                       /\ pc' = "main_done"
                       /\ net' = None
                  ELSE /\ log' = log \o
                            <<found,
                              obtainingMessage(inputs),
                              Event("main", "request", lookup.value)>>
                       /\ pc' = "await_installation"
                       /\ net' = Some(lookup.value)
  /\ UNCHANGED <<inputs, appConfig, appClient, output, state, postScript, calls>>

\* run, lines 48-49 and 52-53 after the await: the message of the lookup
\* that came back without an installation id
notInstalledMessage(in) ==
  IF Truthy(getInput(in.organization))
  THEN Msg(NOT_INSTALLED_ORG, <<getInput(in.organization)>>)
  ELSE Msg(NOT_INSTALLED_REPO, <<in.GITHUB_REPOSITORY[1]>>)

\* the lookup that run awaits, completed with what the request gave
\* the lookup taking every resolved response for the installation
mainLookupCompleteAnyStatus(in, req, r) ==
  IF r.threw
  THEN IF req.route = ROUTE_ORG_INSTALLATION
       THEN getOrganizationInstallationComplete(req.params[1], r)
       ELSE getRepositoryInstallationComplete(req.params[1], req.params[2], r)
  ELSE Ok(r.value.data)

mainLookupComplete(in, req, r) ==
  IF req.route = ROUTE_ORG_INSTALLATION
  THEN getOrganizationInstallationComplete(req.params[1], r)
  ELSE getRepositoryInstallationComplete(req.params[1], req.params[2], r)

MainInstallationResponse ==
  /\ pc = "await_installation"
  /\ \E up \in Upstream(net[1].route) :
       LET r == mainLookupComplete(inputs, net[1], OctokitRequest(up)) IN
       /\ ret' = Returned(net[1].route, net[1].params, Some(up), r)
       /\ IF r.threw
          THEN /\ log' = Append(log, Event("main", "setFailed", failMessage(Some(r.error), None)))
               /\ pc' = "main_done"
               /\ net' = None
          ELSE IF r.value.id = 0
          THEN \* installation?.id || fail(...) leaves installationId undefined,
               \* and the else branch of line 69 fails once more
               /\ log' = log \o
                    <<Event("main", "setFailed", failMessage(None, Some(notInstalledMessage(inputs)))),
                      Event("main", "setFailed", failMessage(None, Some(Msg(NO_INSTALLATION, <<>>))))>>
               /\ pc' = "main_done"
               /\ net' = None
          ELSE LET permissions == parsePermissions(getInput(inputs.permissions))
                   t == getInstallationAccessTokenStart(appClient, r.value.id, Some(permissions))
                   requesting == Info("main",
                                      "Requesting GitHub Application token with permissions: ${permissions}",
                                      <<permissions>>)
               IN IF t.threw
                  THEN /\ log' = log \o <<requesting,
                                           Event("main", "setFailed", failMessage(Some(t.error), None))>>
                       /\ pc' = "main_done"
                       /\ net' = None
                  ELSE /\ log' = log \o <<requesting, Event("main", "request", t.value)>>
                       /\ pc' = "await_token"
                       /\ net' = Some(t.value)
  /\ UNCHANGED <<inputs, appConfig, appClient, appMetadata, output, state, postScript, calls>>

\* line 66 with the test inverted
savesStateInverted(revoke) == ~revoke.threw /\ ~revoke.value

\* line 66 without the test
savesStateAlways(revoke) == ~revoke.threw

\* line 66: whether run saves the token for the post phase
savesState(revoke) == ~revoke.threw /\ revoke.value

\* lines 62-64 with the output written before the token is masked
issuedEventsOutputFirst(token) ==
  <<Event("main", "setOutput", Secret("token", token)),
    Event("main", "setSecret", Secret("token", token)),
    Info("main", "Successfully generated an access token for the application.", <<>>)>>

\* lines 62-64: what run does with the token it was given
issuedEvents(token) ==
  <<Event("main", "setSecret", Secret("token", token)),
    Event("main", "setOutput", Secret("token", token)),
    Info("main", "Successfully generated an access token for the application.", <<>>)>>

MainTokenResponse ==
  /\ pc = "await_token"
  /\ \E up \in Upstream(net[1].route) :
       LET r == getInstallationAccessTokenComplete(OctokitRequest(up))
           revoke == getBooleanInput("revoke_token", inputs.revoke_token)
       IN /\ ret' = Returned("getInstallationAccessToken", net[1].params, Some(up), r)
          /\ net' = None
          /\ pc' = "main_done"
          /\ IF r.threw
             THEN /\ log' = Append(log, Event("main", "setFailed", failMessage(Some(r.error), None)))
                  /\ UNCHANGED <<output, state>>
             ELSE LET token == r.value.token
                      issued == issuedEvents(token)
                  IN /\ output' = Some(token)
                     /\ IF revoke.threw
                        THEN /\ log' = log \o issued \o
                                  <<Event("main", "setFailed", failMessage(Some(revoke.error), None))>>
                             /\ UNCHANGED state
                        ELSE IF savesState(revoke)
                        THEN /\ log' = log \o issued \o
                                  <<Event("main", "saveState", Secret("token", token))>>
                             /\ state' = Some(token)
                        ELSE /\ log' = log \o issued
                             /\ UNCHANGED state
  /\ UNCHANGED <<inputs, appConfig, appClient, appMetadata, postScript, calls>>

(***************************************************************************)
(* post.ts and its two other versions                                      *)
(***************************************************************************)
POST_FAILURE == "Failed to revoke GitHub Application token: ${errorMessage}"

\* core.getState('token'): the empty string when nothing was saved
getState(st) == IF st = None THEN "" ELSE st[1]

\* revokeToken with the test of revoke_token inverted
postChecksInverted(script, in) ==
  LET revokeToken == getBooleanInput("revoke_token", in.revoke_token)
  IN IF script = "part_001" THEN Ok(TRUE)
     ELSE IF revokeToken.threw THEN revokeToken
     ELSE Ok(~revokeToken.value)

\* revokeToken between setSecret and the call of revokeAccessToken: what the
\* script reads and validates there.  Ok(TRUE) goes on to revoke, Ok(FALSE)
\* returns, and an error is caught at the end of revokeToken
postChecks(script, in) ==
  LET revokeToken == getBooleanInput("revoke_token", in.revoke_token)
      proxy == validateProxy(getInput(in.https_proxy))
      ignoreProxy == getBooleanInput("ignore_environment_proxy", in.ignore_environment_proxy)
  IN IF script = "part_001" THEN Ok(TRUE)
     ELSE IF revokeToken.threw THEN revokeToken
     ELSE IF ~revokeToken.value THEN Ok(FALSE)
     ELSE IF script = "post.ts" THEN Ok(TRUE)
     ELSE IF proxy.threw THEN proxy
     ELSE IF ignoreProxy.threw THEN ignoreProxy
     ELSE Ok(TRUE)

\* revokeToken from setSecret to the call of revokeAccessToken: what the
\* script registers and logs there; the message of line 22 is logged once
\* the test of revoke_token has let the script through
postPrelude(script, in, token) ==
  LET revokeToken == getBooleanInput("revoke_token", in.revoke_token)
      masked == <<Event("post", "setSecret", Secret("token", token))>>
  IN IF script # "part_001" /\ revokeToken.threw THEN masked
     ELSE IF script # "part_001" /\ ~revokeToken.value
          THEN masked \o <<Info("post", "GitHub Application revocation skipped. Token will expire automatically.", <<>>)>>
     ELSE masked \o <<Info("post", "Performing GitHub Application token revocation...", <<>>)>>

PostStart ==
  /\ pc = "main_done"
  /\ \E script \in PostScripts :
       LET token == getState(state)
           checks == postChecks(script, inputs)
           masked == postPrelude(script, inputs, token)
       IN /\ postScript' = Some(script)
          /\ IF token = ""
             THEN /\ log' = Append(log, Info("post",
                                "No valid token stored in the action state, nothing to revoke.", <<>>))
                  /\ pc' = "post_done"
                  /\ UNCHANGED net
             ELSE IF checks.threw
             THEN /\ log' = log \o masked \o
                       <<Event("post", "setFailed", Msg(POST_FAILURE, <<checks.error.message>>))>>
                  /\ pc' = "post_done"
                  /\ UNCHANGED net
             ELSE IF ~checks.value
             THEN /\ log' = log \o masked
                  /\ pc' = "post_done"
                  /\ UNCHANGED net
             ELSE LET req == revokeAccessTokenStart(token, inputs.GITHUB_API_URL) IN
                  /\ log' = log \o masked \o <<Event("post", "request", req)>>
                  /\ net' = Some(req)
                  /\ pc' = "await_revoke"
  /\ UNCHANGED <<inputs, appConfig, appClient, appMetadata, output, state, ret, calls>>

PostRevokeResponse ==
  /\ pc = "await_revoke"
  /\ \E up \in Upstream(net[1].route) :
       LET r == revokeAccessTokenComplete(OctokitRequest(up)) IN
       /\ ret' = Returned("revokeAccessToken", <<net[1].auth.token>>, Some(up), r)
       /\ net' = None
       /\ pc' = "post_done"
       /\ IF r.threw
          THEN log' = Append(log, Event("post", "setFailed", Msg(POST_FAILURE, <<r.error.message>>)))
          ELSE log' = Append(log, Info("post", "Token has been successfully revoked.", <<>>))
  /\ UNCHANGED <<inputs, appConfig, appClient, appMetadata, output, state, postScript, calls>>

Next ==
  \/ MainStart
  \/ MainConnectResponse
  \/ MainInstallationResponse
  \/ MainTokenResponse
  \/ PostStart
  \/ PostRevokeResponse

Spec == Init /\ [][Next]_vars

(***************************************************************************)
(* The GitHubApplication class used directly, as its callers and tests do  *)
(***************************************************************************)
\* calls a direct caller makes on one object
MaxCalls == 2

ValidSeconds == {None, Some(30), Some(600)}
Owners == {<<"o">>}
Repos == {<<"r">>}
PermissionMaps ==
  {None, Some(EmptyObject), Some(DefaultPermissions),
   Some([k \in {<<"a">>, <<"b">>} |-> IF k = <<"a">> THEN <<"w">> ELSE <<"r">>])}

InitApp ==
  /\ inputs \in {i \in Inputs :
        /\ i.application_private_key = <<"K">> /\ i.application_id = <<"1", "2">>
        /\ i.github_api_base_url = "" /\ i.https_proxy = <<>>
        /\ i.ignore_environment_proxy = "false" /\ i.organization = <<>>
        /\ i.permissions = <<>> /\ i.revoke_token = "true"
        /\ i.GITHUB_REPOSITORY = None}
  /\ pc = "app_new"
  /\ appConfig = None
  /\ appClient = JsUndefined
  /\ appMetadata = None
  /\ net = None
  /\ output = None
  /\ state = None
  /\ log = <<>>
  /\ ret = None
  /\ postScript = None
  /\ calls = 0

AppNew ==
  /\ pc = "app_new"
  /\ \E privateKey \in {None} \cup {Some(k) : k \in PrivateKeys},
        applicationId \in {None} \cup {Some(i) : i \in ApplicationIds} :
       LET c == GitHubApplicationNew(privateKey, applicationId) IN
       /\ ret' = Returned("new", <<privateKey, applicationId>>, None, c)
       /\ IF c.threw
          THEN pc' = "app_none" /\ UNCHANGED appConfig
          ELSE pc' = "app_ready" /\ appConfig' = Some(c.value)
  /\ UNCHANGED <<inputs, appClient, appMetadata, net, output, state, log, postScript, calls>>

Timeouts == {None, Some(5000)}

\* createApplication(config) called directly
AppCreateApplication ==
  /\ pc = "app_new"
  /\ \E privateKey \in {Some(k) : k \in PrivateKeys},
        applicationId \in {Some(i) : i \in ApplicationIds},
        baseApiUrl \in {Some(u) : u \in BaseUrls},
        timeout \in Timeouts, secondsNow \in Clock :
       LET config == [privateKey |-> privateKey, applicationId |-> applicationId,
                      baseApiUrl |-> baseApiUrl, timeout |-> timeout]
           c == createApplicationStart(config, secondsNow, inputs.GITHUB_API_URL)
       IN /\ appConfig' = c.config
          /\ IF c.r.threw
             THEN /\ ret' = Returned("createApplication", <<timeout, baseApiUrl>>, None, c.r)
                  /\ pc' = "app_none"
                  /\ UNCHANGED <<appClient, net, log>>
             ELSE LET req == Request(c.r.value, ROUTE_APP, <<>>, {ApiVersionHeader}, None) IN
                  /\ ret' = Pending("createApplication", <<timeout, baseApiUrl>>)
                  /\ appClient' = c.r.value
                  /\ net' = Some(req)
                  /\ log' = Append(log, Event("app", "request", req))
                  /\ pc' = "app_await"
  /\ UNCHANGED <<inputs, appMetadata, output, state, postScript, calls>>

AppReadClient ==
  /\ pc = "app_ready"
  /\ calls < MaxCalls
  /\ calls' = calls + 1
  /\ ret' = Returned("client", <<>>, None, clientGetter(appClient))
  /\ UNCHANGED <<inputs, pc, appConfig, appClient, appMetadata, net, output, state, log, postScript>>

\* a method called on the object: it throws at once or sends its request
AppCall(call, args, start) ==
  /\ calls' = calls + 1
  /\ IF start.threw
     THEN /\ ret' = Returned(call, args, None, start)
          /\ UNCHANGED <<pc, net, log>>
     ELSE /\ ret' = Pending(call, args)
          /\ net' = Some(start.value)
          /\ log' = Append(log, Event("app", "request", start.value))
          /\ pc' = "app_await"
  /\ UNCHANGED <<inputs, appConfig, appMetadata, output, state, postScript>>

AppConnect ==
  /\ pc = "app_ready"
  /\ calls < MaxCalls
  /\ \E validSeconds \in ValidSeconds, secondsNow \in Clock :
       LET c == connectStart(appConfig[1], validSeconds, secondsNow, inputs.GITHUB_API_URL) IN
       /\ appClient' = IF c.threw THEN appClient ELSE c.value
       /\ AppCall("connect", <<validSeconds>>,
                  IF c.threw THEN c
                  ELSE Ok(Request(c.value, ROUTE_APP, <<>>, {ApiVersionHeader}, None)))

AppGetRepositoryInstallation ==
  /\ pc = "app_ready"
  /\ calls < MaxCalls
  /\ \E owner \in Owners, repo \in Repos :
       AppCall(ROUTE_REPO_INSTALLATION, <<owner, repo>>,
               getRepositoryInstallationStart(appClient, owner, repo))
  /\ UNCHANGED appClient

AppGetOrganizationInstallation ==
  /\ pc = "app_ready"
  /\ calls < MaxCalls
  /\ \E org \in Organizations :
       AppCall(ROUTE_ORG_INSTALLATION, <<org>>, getOrganizationInstallationStart(appClient, org))
  /\ UNCHANGED appClient

AppGetInstallationAccessToken ==
  /\ pc = "app_ready"
  /\ calls < MaxCalls
  /\ \E installationId \in InstallationIds, permissions \in PermissionMaps :
       AppCall("getInstallationAccessToken", <<installationId, permissions>>,
               getInstallationAccessTokenStart(appClient, installationId, permissions))
  /\ UNCHANGED appClient

\* the awaited request of the pending call settles
AppResponse ==
  /\ pc = "app_await"
  /\ \E up \in Upstream(net[1].route) :
       LET call == ret[1].call
           r == IF call \in {"connect", "createApplication"}
                THEN connectComplete(appConfig[1], OctokitRequest(up))
                ELSE IF call = "getInstallationAccessToken"
                     THEN getInstallationAccessTokenComplete(OctokitRequest(up))
                ELSE mainLookupComplete(inputs, net[1], OctokitRequest(up))
       IN /\ ret' = Returned(call, ret[1].args, Some(up), r)
          /\ appMetadata' = IF call \in {"connect", "createApplication"} /\ ~r.threw
                            THEN Some(r.value) ELSE appMetadata
          \* createApplication returns the object only when connect succeeded
          /\ pc' = IF call = "createApplication" /\ r.threw THEN "app_none" ELSE "app_ready"
  /\ net' = None
  /\ UNCHANGED <<inputs, appConfig, appClient, output, state, log, postScript, calls>>

NextApp ==
  \/ AppNew
  \/ AppCreateApplication
  \/ AppReadClient
  \/ AppConnect
  \/ AppGetRepositoryInstallation
  \/ AppGetOrganizationInstallation
  \/ AppGetInstallationAccessToken
  \/ AppResponse

SpecApp == InitApp /\ [][NextApp]_vars

(***************************************************************************)
(* parsePermissions applied to every input up to MaxPermLen characters     *)
(***************************************************************************)
PermChars == {"a", "b", ":", ",", " "}

RECURSIVE StringsUpTo(_)
StringsUpTo(n) ==
  IF n = 0 THEN {<<>>}
  ELSE LET shorter == StringsUpTo(n - 1)
       IN shorter \cup {Append(w, c) : w \in shorter, c \in PermChars}

\* "contents:write,issues:read"
EXAMPLE_PERMISSIONS ==
  <<"c", "o", "n", "t", "e", "n", "t", "s", ":", "w", "r", "i", "t", "e", ",",
    "i", "s", "s", "u", "e", "s", ":", "r", "e", "a", "d">>

InitParse ==
  /\ \E s \in StringsUpTo(MaxPermLen) \cup {EXAMPLE_PERMISSIONS} :
       inputs = [application_private_key |-> <<"K">>, application_id |-> <<"1", "2">>,
                 github_api_base_url |-> "", https_proxy |-> <<>>,
                 ignore_environment_proxy |-> "false", organization |-> <<>>,
                 permissions |-> s, revoke_token |-> "true",
                 GITHUB_REPOSITORY |-> None, GITHUB_API_URL |-> None]
  /\ pc = "parse"
  /\ appConfig = None
  /\ appClient = JsUndefined
  /\ appMetadata = None
  /\ net = None
  /\ output = None
  /\ state = None
  /\ log = <<>>
  /\ ret = None
  /\ postScript = None
  /\ calls = 0

ParsePermissions ==
  /\ pc = "parse"
  /\ pc' = "parsed"
  /\ ret' = Returned("parsePermissions", <<inputs.permissions>>, None,
                     Ok(parsePermissions(inputs.permissions)))
  /\ UNCHANGED <<inputs, appConfig, appClient, appMetadata, net, output, state, log,
                 postScript, calls>>

NextParse == ParsePermissions

SpecParse == InitParse /\ [][NextParse]_vars

(***************************************************************************)
(* Properties                                                              *)
(***************************************************************************)
\* the last call was `call`, and its request has settled
Settled(call) ==
  ret # None /\ ret[1].call = call /\ ret[1].up # None /\ ret[1].result # None

\* the upstream answered the last call with HTTP status s
AnsweredWith(call, s) ==
  Settled(call) /\ ret[1].up[1].kind = "response" /\ ret[1].up[1].status = s

MainFailures == Failures("main")
PostFailures == Failures("post")

\* C1: connect returns the metadata if and only if GET /app answers 200, and
\* for every other status it throws the connection failure whose message
\* shows that status.
C1_ConnectReportsStatus ==
  Settled("connect") =>
    LET up == ret[1].up[1]
        r == ret[1].result[1]
    IN /\ (~r.threw) <=> (up.kind = "response" /\ up.status = 200)
       /\ (~r.threw) => r.value = up.data
       /\ (up.kind = "response" /\ up.status # 200) =>
            /\ r.threw
            /\ r.error.message.tmpl = CONNECT_FAILURE
            /\ r.error.message.args[1] = Some(up.status)

\* the main phase ended after the repository lookup gave an installation
\* and the access-token request answered 201 with token t
IssuedViaRepository(t) ==
  /\ pc = "main_done"
  /\ AnsweredWith("getInstallationAccessToken", 201)
  /\ ret[1].up[1].data.token = t
  /\ \E i \in 1..Len(log) :
       log[i].op = "request" /\ log[i].val.route = ROUTE_REPO_INSTALLATION

\* C2 as stated: after 200, 200 with an id, and 201 with token t, the output
\* and the saved state both equal t.
C2_OutputAndStateAreToken ==
  \A t \in Tokens : IssuedViaRepository(t) => output = Some(t) /\ state = Some(t)

\* C2 amended: after 200, 200 with an id, and 201 with token t, the output
\* equals t, and the saved state equals t when revoke_token is true.
C2_OutputIsTokenStateWhenRevoking ==
  \A t \in Tokens :
    IssuedViaRepository(t) =>
      /\ output = Some(t)
      /\ inputs.revoke_token = "true" => state = Some(t)

C2_Witness ==
  /\ IssuedViaRepository("ghs_abc")
  /\ inputs.revoke_token = "true"
  /\ output = Some("ghs_abc")
  /\ state = Some("ghs_abc")

\* C3: with no organization configured, a repository lookup answered 404
\* ends the run with a failure message containing "is not installed on
\* repository: <owner>/<repo>", and without a token output.
C3_NotInstalledMessageOn404 ==
  (/\ pc = "main_done"
   /\ ~Truthy(Trim(inputs.organization))
   /\ AnsweredWith(ROUTE_REPO_INSTALLATION, 404)) =>
     /\ \E i \in 1..Len(MainFailures) :
          /\ MainFailures[i].val.tmpl = NOT_INSTALLED_REPO
          /\ MainFailures[i].val.args = <<inputs.GITHUB_REPOSITORY[1]>>
     /\ output = None

\* C4: the post phase sends no revoke request and signals no failure when no
\* token was saved or revoke_token is false; with a token and revoke_token
\* true it sends exactly one revoke request, never more than one, and a 204
\* ends it without a failure.
C4_RevokeOnceOrNotAtAll ==
  /\ Len(Requests("post")) <= 1
  /\ pc = "post_done" =>
       /\ (state = None \/ inputs.revoke_token = "false") =>
            Requests("post") = <<>> /\ PostFailures = <<>>
       /\ (state # None /\ inputs.revoke_token = "true") =>
            /\ Len(Requests("post")) = 1
            /\ Requests("post")[1].val.route = ROUTE_REVOKE
            /\ Requests("post")[1].val.auth.token = state[1]
            /\ AnsweredWith("revokeAccessToken", 204) => PostFailures = <<>>

C4_Witness ==
  /\ pc = "post_done"
  /\ state # None
  /\ inputs.revoke_token = "true"
  /\ AnsweredWith("revokeAccessToken", 204)
  /\ Len(Requests("post")) = 1
  /\ PostFailures = <<>>

\* C5: the access-token request has no permissions field when the
\* permissions argument is absent or an empty map, and has exactly the
\* supplied map when it is not empty.
C5_PermissionsOmittedWhenEmpty ==
  (pc = "app_await" /\ ret[1].call = "getInstallationAccessToken") =>
    LET permissions == ret[1].args[2]
        body == net[1].body
    IN IF permissions = None \/ Cardinality(DOMAIN permissions[1]) = 0
       THEN body.permissions = None
       ELSE body.permissions = Some(permissions[1])

\* C6: while connect has not completed successfully, reading the client
\* accessor throws instead of returning a value.
C6_ClientThrowsBeforeConnected ==
  (ret # None /\ ret[1].call = "client" /\ appMetadata = None) =>
    ret[1].result[1].threw

\* GITHUB_REPOSITORY is missing or has no '/'
BadRepository ==
  \/ inputs.GITHUB_REPOSITORY = None
  \/ \A i \in 1..Len(inputs.GITHUB_REPOSITORY[1]) : inputs.GITHUB_REPOSITORY[1][i] # "/"

\* C7 as stated: with a bad GITHUB_REPOSITORY the main phase fails and no
\* request of any kind was sent.
C7_BadRepositoryNoRequest ==
  (pc = "main_done" /\ BadRepository) =>
    MainFailures # <<>> /\ Requests("main") = <<>>

\* C7 amended: with a bad GITHUB_REPOSITORY the main phase fails, with the
\* invalid GITHUB_REPOSITORY error once connect has succeeded, and the only
\* request it sends is the GET /app of connect: no installation lookup and
\* no access-token request.
C7_BadRepositoryOnlyConnects ==
  BadRepository =>
    /\ Len(Requests("main")) <= 1
    /\ \A i \in 1..Len(Requests("main")) : Requests("main")[i].val.route = ROUTE_APP
    /\ output = None /\ state = None
    /\ pc = "main_done" =>
         /\ Len(MainFailures) = 1
         /\ appMetadata # None => MainFailures[1].val = Msg(INVALID_REPOSITORY, <<>>)

C7_Witness ==
  /\ pc = "main_done"
  /\ BadRepository
  /\ appMetadata # None
  /\ Len(Requests("main")) = 1
  /\ MainFailures = <<Event("main", "setFailed", Msg(INVALID_REPOSITORY, <<>>))>>

\* the https_proxy input is not empty and does not start with http:// or https://
BadProxy ==
  LET proxy == Trim(inputs.https_proxy)
      begins(p) == Len(proxy) >= Len(p) /\ \A i \in 1..Len(p) : proxy[i] = p[i]
  IN
  /\ proxy # <<>>
  /\ ~begins(<<"h", "t", "t", "p", ":", "/", "/">>)
  /\ ~begins(<<"h", "t", "t", "p", "s", ":", "/", "/">>)

\* C8: with a non-empty proxy that does not match ^https?:// the run fails
\* while validating its configuration: no request is ever sent, and nothing
\* is output or saved.
C8_BadProxyFailsBeforeNetwork ==
  BadProxy =>
    /\ AllRequests = <<>>
    /\ output = None
    /\ state = None
    /\ pc # "main_start" =>
         /\ pc \in {"main_done", "post_done"}
         /\ Len(MainFailures) = 1
         /\ MainFailures[1].val = Msg(INIT_FAILURE, <<>>)

C8_Witness ==
  /\ pc = "main_done"
  /\ BadProxy
  /\ inputs.application_private_key = <<"K">>
  /\ inputs.application_id = <<"1", "2">>
  /\ inputs.ignore_environment_proxy = "false"
  /\ Len(MainFailures) = 1
  /\ AllRequests = <<>>

\* C9: at the end of the main phase the saved state `token` is present only
\* if the access-token request answered 201 and revoke_token was true, and
\* then it is the issued token.
C9_StateOnlyWhenIssuedAndRevoking ==
  (pc = "main_done" /\ state # None) =>
    /\ AnsweredWith("getInstallationAccessToken", 201)
    /\ state = Some(ret[1].up[1].data.token)
    /\ inputs.revoke_token = "true"

C9_Witness ==
  /\ pc = "main_done"
  /\ state = Some("ghs_xyz")
  /\ AnsweredWith("getInstallationAccessToken", 201)
  /\ inputs.revoke_token = "true"

\* the pieces of a permissions input between commas, and the name and the
\* level of a piece: the text before its first colon, and the text between
\* its first colon and its second colon or its end
Pieces(input) == Split(input, ",")
ColonsOf(piece) == {i \in 1..Len(piece) : piece[i] = ":"}
FirstOf(S) == CHOOSE i \in S : \A j \in S : i <= j
NameOf(piece) == SubSeq(piece, 1, FirstOf(ColonsOf(piece)) - 1)
LevelOf(piece) ==
  LET c == FirstOf(ColonsOf(piece))
      later == ColonsOf(piece) \ {c}
  IN SubSeq(piece, c + 1, IF later = {} THEN Len(piece) ELSE FirstOf(later) - 1)
IsPair(piece) ==
  ColonsOf(piece) # {} /\ NameOf(piece) # <<>> /\ LevelOf(piece) # <<>>
PairsOf(input) == {i \in 1..Len(Pieces(input)) : IsPair(Pieces(input)[i])}

ExamplePermissions ==
  [k \in {<<"c", "o", "n", "t", "e", "n", "t", "s">>, <<"i", "s", "s", "u", "e", "s">>} |->
     IF k = <<"i", "s", "s", "u", "e", "s">>
     THEN <<"r", "e", "a", "d">> ELSE <<"w", "r", "i", "t", "e">>]

\* C10: parsePermissions gives the map of the name:level pairs of its input,
\* names and levels trimmed and a later pair replacing an earlier one of the
\* same name, and gives the default {contents: read} when the input has no
\* piece with a non-empty name and a non-empty level.
C10_ParsePermissions ==
  pc = "parsed" =>
    LET input == ret[1].args[1]
        result == ret[1].result[1].value
        pairs == PairsOf(input)
        lastFor(k) == CHOOSE i \in pairs :
                        /\ Trim(NameOf(Pieces(input)[i])) = k
                        /\ \A j \in pairs : Trim(NameOf(Pieces(input)[j])) = k => j <= i
    IN /\ pairs = {} => result = DefaultPermissions
       /\ pairs # {} =>
            /\ DOMAIN result = {Trim(NameOf(Pieces(input)[i])) : i \in pairs}
            /\ \A k \in DOMAIN result : result[k] = Trim(LevelOf(Pieces(input)[lastFor(k)]))
       /\ input = EXAMPLE_PERMISSIONS => result = ExamplePermissions

C10_Witness ==
  /\ pc = "parsed"
  /\ ret[1].args[1] = EXAMPLE_PERMISSIONS
  /\ ret[1].result[1].value = ExamplePermissions

\* C11: revokeAccessToken returns true exactly when the revoke request
\* answers 204, and throws the revocation failure for every other status
\* and for a transport error: it never returns false.
C11_RevokeTrueOnlyOn204 ==
  Settled("revokeAccessToken") =>
    LET up == ret[1].up[1]
        r == ret[1].result[1]
    IN /\ (~r.threw) <=> (up.kind = "response" /\ up.status = 204)
       /\ (~r.threw) => r.value = TRUE
       /\ r.threw => r.error.message.tmpl = REVOKE_FAILURE

C11_Witness ==
  /\ AnsweredWith("revokeAccessToken", 200)
  /\ ret[1].result[1].threw
  /\ ret[1].result[1].error.message.tmpl = REVOKE_FAILURE

\* C12: getInstallationAccessToken called with a falsy installation id
\* throws the invalid-argument error and sends no request.
C12_NoRequestWithoutInstallationId ==
  /\ \A i \in 1..Len(log) :
       (log[i].op = "request" /\ log[i].val.route = ROUTE_ACCESS_TOKENS) =>
         log[i].val.params[1] # 0
  /\ (ret # None /\ ret[1].call = "getInstallationAccessToken" /\ ret[1].args[1] = 0) =>
       /\ pc # "app_await"
       /\ net = None
       /\ ret[1].up = None
       /\ ret[1].result # None
       /\ ret[1].result[1].threw
       /\ ret[1].result[1].error.message = Msg(MISSING_INSTALLATION_ID, <<>>)

C12_Witness ==
  /\ ret # None
  /\ ret[1].call = "getInstallationAccessToken"
  /\ ret[1].args[1] = 0
  /\ appMetadata # None
  /\ ret[1].result[1].threw

\* C13: the assertion that connect signs has exp = iat + validSeconds and
\* iss = the application id, with validSeconds 60 when the caller gives
\* none; createApplication hands its config.timeout to connect.
C13_AssertionExpiry ==
  (pc = "app_await" /\ ret[1].call \in {"connect", "createApplication"}) =>
    LET assertion == net[1].auth
        given == ret[1].args[1]
        validSeconds == IF given = None THEN 60 ELSE given[1]
    IN /\ assertion.kind = "jwt"
       /\ assertion.algorithm = "RS256"
       /\ assertion.payload.iat \in Clock
       /\ assertion.payload.exp = assertion.payload.iat + validSeconds
       /\ assertion.payload.iss = appConfig[1].id

C13_Witness ==
  /\ pc = "app_await"
  /\ ret[1].call = "connect"
  /\ ret[1].args[1] = None
  /\ net[1].auth.payload.exp = net[1].auth.payload.iat + 60

\* the base URL the configuration of the run asks for
ConfiguredBaseUrl ==
  IF inputs.github_api_base_url # "" THEN inputs.github_api_base_url
  ELSE IF inputs.GITHUB_API_URL # None /\ inputs.GITHUB_API_URL[1] # ""
       THEN inputs.GITHUB_API_URL[1]
  ELSE "https://api.github.com"

\* C14: every client the run builds, for connect and for revoke, sends its
\* requests to the github_api_base_url input when it is set, otherwise to
\* GITHUB_API_URL when it is set, otherwise to https://api.github.com.
C14_BaseUrlPrecedence ==
  \A i \in 1..Len(log) :
    log[i].op = "request" => log[i].val.baseUrl = ConfiguredBaseUrl

\* the token was registered as a secret in the phase before entry i of the log
MaskedBefore(phase, token, i) ==
  \E j \in 1..(i - 1) :
    /\ log[j].phase = phase
    /\ log[j].op = "setSecret"
    /\ log[j].val.name = "token"
    /\ log[j].val.value = token

\* C15: the main phase registers the issued token as a secret before it
\* writes it to the output or to the saved state, and the post phase
\* registers the saved token as a secret before it sends the revoke request
\* or logs anything else.
C15_MaskedBeforeUse ==
  /\ \A i \in 1..Len(log) :
       (log[i].phase = "main" /\ log[i].op \in {"setOutput", "saveState"}) =>
         MaskedBefore("main", log[i].val.value, i)
  /\ state # None =>
       \A i \in 1..Len(log) :
         (log[i].phase = "post" /\ log[i].op # "setSecret") =>
           MaskedBefore("post", state[1], i)

C15_Witness ==
  /\ pc = "post_done"
  /\ state # None
  /\ \E i \in 1..Len(log) : log[i].phase = "main" /\ log[i].op = "saveState"
  /\ \E i \in 1..Len(log) : log[i].phase = "post" /\ log[i].op = "request"

LookupRoutes == {ROUTE_REPO_INSTALLATION, ROUTE_ORG_INSTALLATION}

\* the requests of the main phase sent on a route
MainRequestsOn(routes) ==
  SelectSeq(Requests("main"), LAMBDA e : e.val.route \in routes)

\* the order of the requests of a run: GET /app is the first request and
\* only the first, a lookup is the second and only the second, the token
\* request the third; a lookup is sent after connect returned 200, and the
\* token request after the lookup returned 200 with a truthy id, the one
\* the token is asked for
ConnectLookupTokenOrder ==
  LET rs == Requests("main") IN
  /\ Len(rs) <= 3
  /\ \A i \in 1..Len(rs) :
       /\ rs[i].val.route = ROUTE_APP <=> i = 1
       /\ rs[i].val.route \in LookupRoutes <=> i = 2
       /\ rs[i].val.route = ROUTE_ACCESS_TOKENS <=> i = 3
  /\ Len(rs) >= 2 => appMetadata # None
  /\ pc = "await_installation" => AnsweredWith("connect", 200)
  /\ pc = "await_token" =>
       /\ ret # None /\ ret[1].call \in LookupRoutes
       /\ AnsweredWith(ret[1].call, 200)
       /\ ret[1].up[1].data.id # 0
       /\ net[1].params = <<ret[1].up[1].data.id>>

\* C16 as stated: every main-phase run calls connect exactly once, before
\* any installation lookup, and sends the token request only after connect
\* returned 200 and a lookup returned 200 with a truthy installation id.
C16_ConnectExactlyOnce ==
  /\ pc = "main_done" => Len(MainRequestsOn({ROUTE_APP})) = 1
  /\ ConnectLookupTokenOrder

\* C16 amended: a main-phase run calls connect at most once, and exactly
\* once when it sends any other request, always as its first request; a run
\* that fails on its inputs before createApplication sends none.  The token
\* request is sent only after connect returned 200 and a lookup returned 200
\* with a truthy installation id.
C16_ConnectAtMostOnceAndFirst ==
  /\ Len(MainRequestsOn({ROUTE_APP})) <= 1
  /\ Requests("main") # <<>> => Len(MainRequestsOn({ROUTE_APP})) = 1
  /\ (pc = "main_done" /\ Requests("main") = <<>>) =>
       /\ Len(MainFailures) = 1
       /\ appMetadata = None
  /\ ConnectLookupTokenOrder

C16_Witness ==
  /\ pc = "await_token"
  /\ Len(Requests("main")) = 3
  /\ AnsweredWith(ROUTE_REPO_INSTALLATION, 200)
  /\ ret[1].up[1].data.id = 42

\* the organization input as run reads it
ConfiguredOrganization == getInput(inputs.organization)

\* C17: a main-phase run sends at most one installation lookup: the
\* organization lookup, for the configured organization, if and only if the
\* organization input is not empty, and the repository lookup otherwise.
C17_OneLookupMode ==
  LET lookups == MainRequestsOn(LookupRoutes) IN
  /\ Len(lookups) <= 1
  /\ \A i \in 1..Len(lookups) :
       /\ lookups[i].val.route = ROUTE_ORG_INSTALLATION <=> Truthy(ConfiguredOrganization)
       /\ lookups[i].val.route = ROUTE_ORG_INSTALLATION =>
            lookups[i].val.params = <<ConfiguredOrganization>>
       /\ lookups[i].val.route = ROUTE_REPO_INSTALLATION =>
            lookups[i].val.params = Split(inputs.GITHUB_REPOSITORY[1], "/")

C17_Witness ==
  /\ pc = "main_done"
  /\ inputs.organization = <<"a", "c", "m", "e">>
  /\ MainRequestsOn({ROUTE_ORG_INSTALLATION}) # <<>>
  /\ MainRequestsOn({ROUTE_REPO_INSTALLATION}) = <<>>

\* C18: every request sent to the API, the metadata fetch, the installation
\* lookups, the token issuance and the token revocation, carries the
\* X-GitHub-Api-Version header.
C18_EveryRequestCarriesApiVersion ==
  \A i \in 1..Len(AllRequests) : ApiVersionHeader \in AllRequests[i].val.headers

\* C19: a main-phase run ends either with the output token set and no
\* failure signalled, or with exactly one failure signalled and the output
\* token never set.
C19_OneOutcome ==
  pc = "main_done" =>
    \/ output # None /\ MainFailures = <<>>
    \/ output = None /\ Len(MainFailures) = 1

====
